---- MODULE Spec2Model ----
(***************************************************************************)
(* Model of the chat session store of bandwidth-buddy (server.js, listed   *)
(* in src/AI_INTEGRATION_EXPLANATION.md from line 500 on): the             *)
(* ChatSessionManager class, the request handlers that use it              *)
(* (POST /api/evaluate, POST /api/chat/ask, GET /api/chat/:packetId) and   *)
(* the periodic cleanup timer.                                             *)
(*                                                                         *)
(* A text is modelled by what the code reads of it: its length, the number *)
(* of extra characters JSON.stringify adds when escaping it, and the       *)
(* leading/trailing whitespace String.prototype.trim() removes.  `src` and *)
(* `id` stand for the characters themselves: two texts are the same string *)
(* iff all fields agree.                                                   *)
(*                                                                         *)
(* Each handler runs to its first `await` of the inference call as one     *)
(* step (JavaScript runs a handler without interruption between awaits);   *)
(* the continuation after the await is a second step.  Date.now() is the   *)
(* variable `now`, which only the Tick step advances.                      *)
(*                                                                         *)
(* A call that finds nothing to change (a read of a live session within    *)
(* the window, a 404, a cleanup with nothing expired, clearSession of an   *)
(* absent key) is a stuttering step; what it answers is an operator of the *)
(* state it runs in (HistoryStatus, getMessagesResult, ...).               *)
(***************************************************************************)
EXTENDS Integers, Sequences, FiniteSets, TLC

VARIABLES
    sessions,   \* chatManager.sessions: packetId -> session (a function on the stored keys)
    now,        \* Date.now()
    inflight,   \* handlers suspended at `await fetch(OLLAMA_URL/api/chat)`
    nextId,     \* per packetId, the identity of the next text sent for it
    last,       \* the last step that changed the state: what it answered / logged
    trim,       \* a manager function called on its own: its argument and result
    client      \* the page's PacketAnalyzer: monitoring state, timers, requests awaiting answers

vars == <<sessions, now, inflight, nextId, last, trim, client>>

----------------------------------------------------------------------------
(* Program constants *)

CHAT_SESSION_TTL == 3600000

maxContextTokens == 6000

charsPerToken == 4

responseReserve == 500

(* Bounds of the model *)

\* texts (user messages and model responses) that enter the store in one run
MaxMsgs == 4

\* handlers simultaneously waiting for the inference endpoint
MaxInflight == 2

\* instants at which the clock is observed after the start
MaxTicks == 2

\* non-anchor messages of a list handed to trimToContextWindow directly
MaxTrimLen == 4

Keys == {"p1", "p2"}

----------------------------------------------------------------------------
(* Texts *)

Text(src, id, len, esc, ws, wsEsc) ==
    [src |-> src, id |-> id, len |-> len, esc |-> esc, ws |-> ws, wsEsc |-> wsEsc]

\* The template literals open and close with a newline, which .trim() removes.
SYSTEM_PROMPT == Text("SYSTEM_PROMPT", 0, 1195, 27, 2, 2)

CHAT_SYSTEM_PROMPT == Text("CHAT_SYSTEM_PROMPT", 0, 1243, 21, 2, 2)

\* `null`, the default of addMessage's systemPrompt parameter
NoPrompt == Text("null", 0, 0, 0, 0, 0)

\* String.prototype.trim(): drops the surrounding whitespace
Trim(t) ==
    [t EXCEPT !.len = @ - t.ws, !.esc = @ - t.wsEsc, !.ws = 0, !.wsEsc = 0]

Message(role, content) == [role |-> role, content |-> content]

RoleLength(role) ==
    CASE role = "system" -> 6
      [] role = "user" -> 4
      [] role = "assistant" -> 9

\* JSON.stringify(msg).length for {"role":"..","content":".."}
JsonLength(msg) == 24 + RoleLength(msg.role) + msg.content.len + msg.content.esc

----------------------------------------------------------------------------
(* ChatSessionManager *)

\* estimateTokens with Math.floor in place of Math.ceil
estimateTokensFloor(textLength) == textLength \div charsPerToken

\* estimateTokens(text), on the text's length: Math.ceil(text.length / charsPerToken)
estimateTokens(textLength) == (textLength + charsPerToken - 1) \div charsPerToken

MsgTokens(msg) == estimateTokens(JsonLength(msg))

RECURSIVE getTotalTokens(_)
getTotalTokens(messages) ==
    IF messages = <<>> THEN 0
    ELSE MsgTokens(Head(messages)) + getTotalTokens(Tail(messages))

\* the kept messages left in the order the loop pushed them, newest first
Unreversed(s) == s

RECURSIVE Reverse(_)
Reverse(s) == IF s = <<>> THEN <<>> ELSE Append(Reverse(Tail(s)), Head(s))

\* TrimLoop with `continue` in place of `break`: a message that does not fit is
\* skipped and older, smaller ones are still taken
RECURSIVE TrimLoopSkipping(_, _, _, _, _)
TrimLoopSkipping(otherMessages, i, totalTokens, trimmedMessages, availableTokens) ==
    IF i = 0 THEN trimmedMessages
    ELSE LET msgTokens == MsgTokens(otherMessages[i]) IN
         IF totalTokens + msgTokens <= availableTokens
         THEN TrimLoopSkipping(otherMessages, i - 1, totalTokens + msgTokens,
                               Append(trimmedMessages, otherMessages[i]), availableTokens)
         ELSE TrimLoopSkipping(otherMessages, i - 1, totalTokens, trimmedMessages,
                               availableTokens)

\* TrimLoop with `<` in place of `<=`: a message that fits exactly is refused
RECURSIVE TrimLoopStrict(_, _, _, _, _)
TrimLoopStrict(otherMessages, i, totalTokens, trimmedMessages, availableTokens) ==
    IF i = 0 THEN trimmedMessages
    ELSE LET msgTokens == MsgTokens(otherMessages[i]) IN
         IF totalTokens + msgTokens < availableTokens
         THEN TrimLoopStrict(otherMessages, i - 1, totalTokens + msgTokens,
                             Append(trimmedMessages, otherMessages[i]), availableTokens)
         ELSE trimmedMessages

\* The loop of trimToContextWindow: i runs from the newest message down,
\* pushing onto trimmedMessages while the running total fits; `break` otherwise.
RECURSIVE TrimLoop(_, _, _, _, _)
TrimLoop(otherMessages, i, totalTokens, trimmedMessages, availableTokens) ==
    IF i = 0 THEN trimmedMessages
    ELSE LET msgTokens == MsgTokens(otherMessages[i]) IN
         IF totalTokens + msgTokens <= availableTokens
         THEN TrimLoop(otherMessages, i - 1, totalTokens + msgTokens,
                       Append(trimmedMessages, otherMessages[i]), availableTokens)
         ELSE trimmedMessages

\* trimToContextWindow without the reserve: the whole window is given to history
trimWithoutReserve(messages) ==
    IF Len(messages) = 0 THEN messages
    ELSE LET systemPrompt == messages[1]
             systemTokens == MsgTokens(systemPrompt)
         IN IF systemTokens > maxContextTokens - responseReserve
            THEN <<systemPrompt>>
            ELSE <<systemPrompt>> \o
                 Reverse(Tail(TrimLoop(Tail(messages), Len(messages) - 1, 0,
                                       <<systemPrompt>>, maxContextTokens - systemTokens)))

\* trimToContextWindow that treats index 0 like any other message: the newest
\* messages that fit are kept, the system prompt among them only if it fits too
trimWithoutPinning(messages) ==
    IF Len(messages) = 0 THEN messages
    ELSE Reverse(TrimLoop(messages, Len(messages), 0, <<>>,
                          maxContextTokens - responseReserve))

trimToContextWindow(messages) ==
    IF Len(messages) = 0 THEN messages
    ELSE LET systemPrompt == messages[1]
             otherMessages == Tail(messages)
             systemTokens == MsgTokens(systemPrompt)
             availableTokens == maxContextTokens - systemTokens - responseReserve
         IN IF systemTokens > maxContextTokens - responseReserve
            THEN <<systemPrompt>>
            ELSE LET trimmedMessages ==
                         TrimLoop(otherMessages, Len(otherMessages), 0,
                                  <<systemPrompt>>, availableTokens)
                 IN <<systemPrompt>> \o Reverse(Tail(trimmedMessages))

Remove(S, k) == [x \in DOMAIN S \ {k} |-> S[x]]

Put(S, k, v) == [x \in DOMAIN S \cup {k} |-> IF x = k THEN v ELSE S[x]]

\* the expiry test with `>=` in place of `>`
ExpiredInclusive(session, t) == t - session.lastAccess >= CHAT_SESSION_TTL

\* the expiry test with its operands exchanged
ExpiredSwapped(session, t) == session.lastAccess - t > CHAT_SESSION_TTL

\* the expiry test of getSession and cleanupOldSessions
Expired(session, t) == t - session.lastAccess > CHAT_SESSION_TTL

\* getSession(packetId): whether it returns a session ...
getSessionFound(S, k, t) == k \in DOMAIN S /\ ~Expired(S[k], t)

\* getSession that returns null for an expired entry without deleting it
getSessionKeeping(S, k, t) == S

\* ... and the store it leaves (an expired entry is deleted on the way)
getSession(S, k, t) ==
    IF k \in DOMAIN S /\ Expired(S[k], t) THEN Remove(S, k) ELSE S

createSession(S, k, initialSystemPrompt, t) ==
    Put(S, k, [messages |-> <<Message("system", Trim(initialSystemPrompt))>>,
               createdAt |-> t,
               lastAccess |-> t])

\* addMessage with this.sessions.has(packetId) not negated: the two default
\* prompts are exchanged
addMessageSwapped(S, k, role, content, systemPrompt, t) ==
    LET S1 == getSession(S, k, t)
        prompt == IF systemPrompt # NoPrompt THEN systemPrompt
                  ELSE IF role = "user" /\ k \in DOMAIN S1 THEN SYSTEM_PROMPT
                  ELSE CHAT_SYSTEM_PROMPT
        S2 == IF getSessionFound(S, k, t) THEN S1 ELSE createSession(S1, k, prompt, t)
    IN [S2 EXCEPT ![k].messages = Append(@, Message(role, content)),
                  ![k].lastAccess = t]

\* addMessage that stamps createdAt as well as lastAccess
addMessageStampingCreatedAt(S, k, role, content, systemPrompt, t) ==
    LET S1 == getSession(S, k, t)
        prompt == IF systemPrompt # NoPrompt THEN systemPrompt
                  ELSE IF role = "user" /\ k \notin DOMAIN S1 THEN SYSTEM_PROMPT
                  ELSE CHAT_SYSTEM_PROMPT
        S2 == IF getSessionFound(S, k, t) THEN S1 ELSE createSession(S1, k, prompt, t)
    IN [S2 EXCEPT ![k].messages = Append(@, Message(role, content)),
                  ![k].lastAccess = t,
                  ![k].createdAt = t]

\* addMessage that pushes the message a second time
addMessageTwice(S, k, role, content, systemPrompt, t) ==
    LET S1 == getSession(S, k, t)
        S2 == IF getSessionFound(S, k, t) THEN S1
              ELSE createSession(S1, k, IF role = "user" THEN SYSTEM_PROMPT
                                        ELSE CHAT_SYSTEM_PROMPT, t)
    IN [S2 EXCEPT ![k].messages = Append(Append(@, Message(role, content)),
                                         Message(role, content)),
                  ![k].lastAccess = t]

addMessage(S, k, role, content, systemPrompt, t) ==
    LET S1 == getSession(S, k, t)
        prompt == IF systemPrompt # NoPrompt THEN systemPrompt
                  ELSE IF role = "user" /\ k \notin DOMAIN S1 THEN SYSTEM_PROMPT
                  ELSE CHAT_SYSTEM_PROMPT
        S2 == IF getSessionFound(S, k, t) THEN S1 ELSE createSession(S1, k, prompt, t)
    IN [S2 EXCEPT ![k].messages = Append(@, Message(role, content)),
                  ![k].lastAccess = t]

\* getMessages(packetId) logs "Context window exceeded" and trims
getMessagesTrims(S, k, t) ==
    getSessionFound(S, k, t) /\ getTotalTokens(S[k].messages) > maxContextTokens

\* getMessages that returns the trimmed list without assigning it to
\* session.messages
getMessagesWithoutAssign(S, k, t) == getSession(S, k, t)

\* the store getMessages(packetId) leaves
getMessages(S, k, t) ==
    LET S1 == getSession(S, k, t) IN
    IF ~getSessionFound(S, k, t) THEN S1
    ELSE IF getMessagesTrims(S, k, t)
         THEN [S1 EXCEPT ![k].messages = trimToContextWindow(@)]
         ELSE S1

\* what getMessages(packetId) returns: session.messages, or <<>> for null
getMessagesResult(S, k, t) ==
    IF getSessionFound(S, k, t) THEN getMessages(S, k, t)[k].messages ELSE <<>>

\* cleanupOldSessions that stops at the first entry it deletes
cleanupFirstOnly(S, t) ==
    IF \E x \in DOMAIN S : Expired(S[x], t)
    THEN Remove(S, CHOOSE x \in DOMAIN S : Expired(S[x], t))
    ELSE S

cleanupOldSessions(S, t) ==
    [k \in {x \in DOMAIN S : ~Expired(S[x], t)} |-> S[k]]

RECURSIVE TotalChars(_)
\* the inner loop of getStats: totalChars += JSON.stringify(msg).length
TotalChars(messages) ==
    IF messages = <<>> THEN 0
    ELSE JsonLength(Head(messages)) + TotalChars(Tail(messages))

RECURSIVE StatsLoop(_, _)
\* the outer loop of getStats over the sessions stored under ks
StatsLoop(S, ks) ==
    IF ks = {} THEN [totalMessages |-> 0, totalChars |-> 0]
    ELSE LET k == CHOOSE x \in ks : TRUE
             rest == StatsLoop(S, ks \ {k})
         IN [totalMessages |-> rest.totalMessages + Len(S[k].messages),
             totalChars |-> rest.totalChars + TotalChars(S[k].messages)]

\* getStats that leaves the system prompts out of its count
getStatsResultSkippingAnchor(S) ==
    [activeSessions |-> Cardinality(DOMAIN S),
     totalMessages |-> StatsLoop(S, DOMAIN S).totalMessages - Cardinality(DOMAIN S),
     estimatedMemoryBytes |-> StatsLoop(S, DOMAIN S).totalChars
                                  + Cardinality(DOMAIN S) * 200]

\* what getStats() returns (estimatedMemoryMB and KB are this number of bytes
\* formatted)
getStatsResult(S) ==
    [activeSessions |-> Cardinality(DOMAIN S),
     totalMessages |-> StatsLoop(S, DOMAIN S).totalMessages,
     estimatedMemoryBytes |-> StatsLoop(S, DOMAIN S).totalChars
                                  + Cardinality(DOMAIN S) * 200]

\* the store getStats() leaves: it assigns nothing
getStats(S) == S

\* this.sessions.clear() in place of this.sessions.delete(packetId)
clearSessionAll(S, k) == <<>>

clearSession(S, k) == Remove(S, k)

\* clearSession that looks the key up after deleting it
clearSessionResultAfter(S, k) == k \in DOMAIN clearSession(S, k)

\* what clearSession(packetId) returns: Map.delete's result
clearSessionResult(S, k) == k \in DOMAIN S

----------------------------------------------------------------------------
(* Inputs *)

\* content lengths of the texts that enter the store: a short one, and a long
\* one of which two fit the context window next to the anchor and three do not.
\* An evaluation request carries the formatted packet context (long), a
\* question is typed by the user (short), the model answers with either.
EvaluationLengths == {10770}

QuestionLengths == {40}

ResponseLengths == {40, 10770}

\* evaluatePacketWithContext's userMessage: the formatted context followed by
\* "\n\nEvaluate ONLY the TARGET PACKET. ..." (two escaped newlines at least)
EvaluationText(id, n) == Text("text", id, n, 2, 0, 0)

\* req.body.question, typed with surrounding blanks that question.trim() drops
QuestionText(id, n) == Text("text", id, n + 2, 0, 2, 0)

\* data.message.content of the inference endpoint's answer
ResponseText(id, n) == Text("text", id, n, 2, 0, 0)

\* what a step answered and logged: the operation, its key, the HTTP status
\* (0: none yet), the anchor the handler found at index 0 ("-": none), whether
\* it logged "Switched to chat mode" / "Context window exceeded", whether it
\* deleted (clearSession's result; cleanupOldSessions' "Cleaned up" log), and
\* whether it ran validateEvaluationResponse
Last(op, key, status, anchor, switched, trimmed, deleted, validated) ==
    [op |-> op, key |-> key, status |-> status, anchor |-> anchor,
     switched |-> switched, trimmed |-> trimmed, deleted |-> deleted,
     validated |-> validated]

\* A suspended handler.  `held` is its local variable `messages`, the array
\* getMessages returned before the await: Live while that array is still the
\* session's (pushes to the session are pushes to it), else the length at
\* which the array was left when the session got another array or was deleted.
\* Only evaluatePacketWithContext reads the variable after the await.
Request(kind, key, id, held) == [kind |-> kind, key |-> key, id |-> id, held |-> held]

Live == -1

\* the session stored under k in S stops using its array
Detach(I, S, k) ==
    {IF r.key = k /\ r.kind = "evaluate" /\ r.held = Live
     THEN [r EXCEPT !.held = Len(S[k].messages)] ELSE r : r \in I}

\* the suspended handlers after getMessages(k) on S: the call deletes an
\* expired session and gives a trimmed one a new array
AfterGetMessages(I, S, k, t) ==
    IF k \in DOMAIN S /\ (Expired(S[k], t) \/ getMessagesTrims(S, k, t))
    THEN Detach(I, S, k) ELSE I

\* ... after addMessage(k, ...) on S: the call replaces an expired session
AfterAddMessage(I, S, k, t) ==
    IF k \in DOMAIN S /\ Expired(S[k], t) THEN Detach(I, S, k) ELSE I

RECURSIVE DetachAll(_, _, _)
DetachAll(I, S, ks) ==
    IF ks = {} THEN I
    ELSE LET k == CHOOSE x \in ks : TRUE IN DetachAll(Detach(I, S, k), S, ks \ {k})

\* ... after cleanupOldSessions on S
AfterCleanup(I, S, t) ==
    DetachAll(I, S, {k \in DOMAIN S : Expired(S[k], t)})

Call(messages, result, applied) ==
    [messages |-> messages, result |-> result, applied |-> applied]

NoCall == Call(<<>>, <<>>, FALSE)

RECURSIVE SumOver(_, _)
SumOver(f, S) ==
    IF S = {} THEN 0
    ELSE LET x == CHOOSE y \in S : TRUE IN f[x] + SumOver(f, S \ {x})

\* texts that have entered the store so far
TextsSent == SumOver(nextId, Keys) - Cardinality(Keys)

----------------------------------------------------------------------------
(* The page's script (src/unnamed/part_001): PacketAnalyzer's monitoring state *)

\* clicks on the Start and Stop buttons in one run
MaxClicks == 3

\* this.isMonitoring; this.packetFetchInterval (Null or the handle setInterval
\* returned); the interval timers of the page that run fetchPackets, and how
\* many setInterval has created; startBtn.disabled and stopBtn.disabled; the
\* methods suspended at `await fetch`, by the endpoint they wait for; the
\* clicks so far
PacketAnalyzer(isMonitoring, packetFetchInterval, timers, timersSet, startDisabled, stopDisabled, pending, clicks) ==
    [isMonitoring |-> isMonitoring, packetFetchInterval |-> packetFetchInterval,
     timers |-> timers, timersSet |-> timersSet,
     startDisabled |-> startDisabled, stopDisabled |-> stopDisabled,
     pending |-> pending, clicks |-> clicks]

Null == 0

Endpoints == {"status", "start", "stop"}

\* no page is open
NoPage ==
    PacketAnalyzer(FALSE, Null, {}, 0, TRUE, TRUE, [e \in Endpoints |-> 0], 0)

\* new PacketAnalyzer(): the constructor ends with this.checkMonitoringStatus(),
\* which runs to its `await fetch('/api/monitoring/status')`.  The buttons are
\* as the page's HTML has them.
Constructed(startDisabled, stopDisabled) ==
    PacketAnalyzer(FALSE, Null, {}, 0, startDisabled, stopDisabled,
                   [e \in Endpoints |-> IF e = "status" THEN 1 ELSE 0], 0)

updateUI(c) ==
    [c EXCEPT !.startDisabled = c.isMonitoring, !.stopDisabled = ~c.isMonitoring]

\* startPacketFetching(): fetchPackets() at once (it changes nothing here),
\* clearInterval of the present timer, then setInterval
startPacketFetching(c) ==
    [c EXCEPT !.timers = (IF c.packetFetchInterval # Null
                          THEN @ \ {c.packetFetchInterval} ELSE @)
                             \cup {c.timersSet + 1},
              !.timersSet = @ + 1,
              !.packetFetchInterval = c.timersSet + 1]

stopPacketFetching(c) ==
    IF c.packetFetchInterval # Null
    THEN [c EXCEPT !.timers = @ \ {c.packetFetchInterval},
                   !.packetFetchInterval = Null]
    ELSE c

\* a method resumes after its await
Resumed(c, e) == [c EXCEPT !.pending[e] = @ - 1]

\* checkMonitoringStatus() after the await: data.is_sniffing || false
StatusResponse(isSniffing) ==
    /\ client.pending["status"] > 0
    /\ LET c1 == updateUI([Resumed(client, "status") EXCEPT !.isMonitoring = isSniffing])
       IN client' = IF c1.isMonitoring THEN startPacketFetching(c1) ELSE c1
    /\ UNCHANGED <<sessions, now, inflight, nextId, last, trim>>

\* ... fetch or response.json() threw: the catch block logs
StatusError ==
    /\ client.pending["status"] > 0
    /\ client' = Resumed(client, "status")
    /\ UNCHANGED <<sessions, now, inflight, nextId, last, trim>>

\* a click on startBtn: startMonitoring() up to its await
StartClick ==
    /\ ~client.startDisabled
    /\ client.clicks < MaxClicks
    /\ client' = [client EXCEPT !.pending["start"] = @ + 1, !.clicks = @ + 1]
    /\ UNCHANGED <<sessions, now, inflight, nextId, last, trim>>

\* startMonitoring() after the await; without response.ok, or when fetch
\* threw, it alerts only
StartResponse(ok) ==
    /\ client.pending["start"] > 0
    /\ LET c0 == Resumed(client, "start")
       IN client' = IF ok
                    THEN startPacketFetching(updateUI([c0 EXCEPT !.isMonitoring = TRUE]))
                    ELSE c0
    /\ UNCHANGED <<sessions, now, inflight, nextId, last, trim>>

\* a click on stopBtn: stopMonitoring() up to its await
StopClick ==
    /\ ~client.stopDisabled
    /\ client.clicks < MaxClicks
    /\ client' = [client EXCEPT !.pending["stop"] = @ + 1, !.clicks = @ + 1]
    /\ UNCHANGED <<sessions, now, inflight, nextId, last, trim>>

\* stopMonitoring() after the await
StopResponse(ok) ==
    /\ client.pending["stop"] > 0
    /\ LET c0 == Resumed(client, "stop")
       IN client' = IF ok
                    THEN stopPacketFetching(updateUI([c0 EXCEPT !.isMonitoring = FALSE]))
                    ELSE c0
    /\ UNCHANGED <<sessions, now, inflight, nextId, last, trim>>

----------------------------------------------------------------------------
(* Initial state: the server has started, chatManager is empty *)

Init ==
    /\ sessions = <<>>
    /\ now = 0
    /\ client = NoPage
    /\ inflight = {}
    /\ nextId = [k \in Keys |-> 1]
    /\ last = Last("start", "-", 0, "-", FALSE, FALSE, FALSE, FALSE)
    /\ trim = NoCall

----------------------------------------------------------------------------
(* POST /api/evaluate -> evaluatePacketWithContext, up to the inference call *)

\* the get-or-create step without the get: every evaluation starts a session
getOrCreateAlways(S, k, t) == createSession(S, k, SYSTEM_PROMPT, t)

\* the get-or-create step with this.sessions.has(packetId) as its test
getOrCreateStale(S, k, t) ==
    IF k \in DOMAIN S THEN S ELSE createSession(S, k, SYSTEM_PROMPT, t)

\* getMessages(packetId), then createSession(packetId, SYSTEM_PROMPT) and
\* getMessages again if it returned null: the store this leaves
getOrCreate(S, k, t) ==
    IF getSessionFound(S, k, t) THEN getMessages(S, k, t)
    ELSE getMessages(createSession(getMessages(S, k, t), k, SYSTEM_PROMPT, t), k, t)

EvaluateStart(k, n) ==
    /\ TextsSent < MaxMsgs
    /\ Cardinality(inflight) < MaxInflight
    /\ LET found == getSessionFound(sessions, k, now)
           S1 == getMessages(sessions, k, now)
           I1 == AfterGetMessages(inflight, sessions, k, now)
           S2 == getOrCreate(sessions, k, now)
           S3 == addMessage(S2, k, "user", EvaluationText(nextId[k], n), NoPrompt, now)
           S4 == getMessages(S3, k, now)
           I4 == AfterGetMessages(I1, S3, k, now)
       IN /\ sessions' = S4
          /\ inflight' = I4 \cup {Request("evaluate", k, nextId[k], Live)}
          /\ last' = Last("evaluate", k, 0, S2[k].messages[1].content.src, FALSE,
                          getMessagesTrims(sessions, k, now) \/ getMessagesTrims(S3, k, now),
                          FALSE, FALSE)
    /\ nextId' = [nextId EXCEPT ![k] = @ + 1]
    /\ UNCHANGED <<now, trim, client>>

\* a catch block that takes the request's user message back out of the session
EvaluateFailRollback(r) ==
    /\ r \in inflight /\ r.kind = "evaluate"
    /\ sessions' = IF r.key \in DOMAIN sessions /\ Len(sessions[r.key].messages) > 1
                   THEN [sessions EXCEPT ![r.key].messages =
                            SelectSeq(@, LAMBDA m : m.content.id # r.id \/ m.role = "system")]
                   ELSE sessions
    /\ inflight' = inflight \ {r}
    /\ last' = Last("evaluateReply", r.key, 500, "-", FALSE, FALSE, FALSE, FALSE)
    /\ UNCHANGED <<now, nextId, trim, client>>

(* evaluatePacketWithContext after the inference call: !resp.ok throws *)
EvaluateFail(r) ==
    /\ r \in inflight /\ r.kind = "evaluate"
    /\ inflight' = inflight \ {r}
    /\ last' = Last("evaluateReply", r.key, 500, "-", FALSE, FALSE, FALSE, FALSE)
    /\ UNCHANGED <<sessions, now, nextId, trim, client>>

(* ... otherwise the response is appended to the session, and validated if  *)
(* the array the handler holds has three elements by then                  *)
EvaluateReply(r, n, valid) ==
    /\ r \in inflight /\ r.kind = "evaluate"
    /\ TextsSent < MaxMsgs
    /\ LET S1 == addMessage(sessions, r.key, "assistant",
                            ResponseText(nextId[r.key], n), NoPrompt, now)
           I1 == AfterAddMessage(inflight, sessions, r.key, now)
           held == IF \E q \in I1 : q.id = r.id /\ q.key = r.key /\ q.held = Live
                   THEN Len(S1[r.key].messages)
                   ELSE (CHOOSE q \in I1 : q.id = r.id /\ q.key = r.key).held
           validate == held = 3
       IN /\ sessions' = S1
          /\ inflight' = {q \in I1 : ~(q.id = r.id /\ q.key = r.key)}
          /\ last' = Last("evaluateReply", r.key,
                          IF validate /\ ~valid THEN 500 ELSE 200,
                          "-", FALSE, FALSE, FALSE, validate)
    /\ nextId' = [nextId EXCEPT ![r.key] = @ + 1]
    /\ UNCHANGED <<now, trim, client>>

----------------------------------------------------------------------------
(* POST /api/chat/ask *)

\* messages.unshift(...) in place of messages[0] = ...
switchAnchorUnshift(messages) ==
    <<Message("system", Trim(CHAT_SYSTEM_PROMPT))>> \o messages

\* messages[0] = { role: "system", content: CHAT_SYSTEM_PROMPT.trim() }
switchAnchor(messages) ==
    [messages EXCEPT ![1] = Message("system", Trim(CHAT_SYSTEM_PROMPT))]

\* the status POST /api/chat/ask answers at once: 404 without a session, else
\* none before the inference call returns
AskStatus(S, k, t) == IF getSessionFound(S, k, t) THEN 0 ELSE 404

\* no session: 404 (getMessages has deleted an expired entry on the way)
AskNotFound(k) ==
    /\ AskStatus(sessions, k, now) = 404
    /\ sessions' = getMessages(sessions, k, now)
    /\ inflight' = AfterGetMessages(inflight, sessions, k, now)
    /\ last' = IF sessions' = sessions THEN last
               ELSE Last("ask", k, 404, "-", FALSE, FALSE, FALSE, FALSE)
    /\ UNCHANGED <<now, nextId, trim, client>>

AskStart(k, n) ==
    /\ TextsSent < MaxMsgs
    /\ Cardinality(inflight) < MaxInflight
    /\ getSessionFound(sessions, k, now)
    /\ Trim(QuestionText(nextId[k], n)).len > 0
    /\ LET S1 == getMessages(sessions, k, now)
           I1 == AfterGetMessages(inflight, sessions, k, now)
           messages == S1[k].messages
           switch == Len(messages) = 3
           S2 == IF switch THEN [S1 EXCEPT ![k].messages = switchAnchor(@)] ELSE S1
           S3 == addMessage(S2, k, "user", Trim(QuestionText(nextId[k], n)), NoPrompt, now)
           S4 == getMessages(S3, k, now)
           I4 == AfterGetMessages(I1, S3, k, now)
       IN /\ sessions' = S4
          /\ inflight' = I4 \cup {Request("ask", k, nextId[k], Live)}
          /\ last' = Last("ask", k, 0, messages[1].content.src, switch,
                          getMessagesTrims(sessions, k, now) \/ getMessagesTrims(S3, k, now),
                          FALSE, FALSE)
    /\ nextId' = [nextId EXCEPT ![k] = @ + 1]
    /\ UNCHANGED <<now, trim, client>>

AskFail(r) ==
    /\ r \in inflight /\ r.kind = "ask"
    /\ inflight' = inflight \ {r}
    /\ last' = Last("askReply", r.key, 500, "-", FALSE, FALSE, FALSE, FALSE)
    /\ UNCHANGED <<sessions, now, nextId, trim, client>>

AskReply(r, n) ==
    /\ r \in inflight /\ r.kind = "ask"
    /\ TextsSent < MaxMsgs
    /\ sessions' = addMessage(sessions, r.key, "assistant",
                              ResponseText(nextId[r.key], n), NoPrompt, now)
    /\ inflight' = AfterAddMessage(inflight, sessions, r.key, now) \ {r}
    /\ nextId' = [nextId EXCEPT ![r.key] = @ + 1]
    /\ last' = Last("askReply", r.key, 200, "-", FALSE, FALSE, FALSE, FALSE)
    /\ UNCHANGED <<now, trim, client>>

----------------------------------------------------------------------------
(* GET /api/chat/:packetId *)

\* the status it answers
HistoryStatus(S, k, t) == IF getSessionFound(S, k, t) THEN 200 ELSE 404

\* the messages it answers: messages.slice(1)
HistoryMessages(S, k, t) ==
    IF getSessionFound(S, k, t) THEN Tail(getMessagesResult(S, k, t)) ELSE <<>>

\* the client's loadChatHistory(packetId): what it hands to renderChatMessages
\* of the answer of GET /api/chat/:packetId, data.messages.slice(2); nothing
\* when the answer is a 404 or holds no message
loadChatHistory(S, k, t) ==
    LET messages == HistoryMessages(S, k, t) IN
    IF HistoryStatus(S, k, t) = 200 /\ Len(messages) > 0
    THEN SubSeq(messages, 3, Len(messages))
    ELSE <<>>

History(k) ==
    /\ sessions' = getMessages(sessions, k, now)
    /\ inflight' = AfterGetMessages(inflight, sessions, k, now)
    /\ last' = IF sessions' = sessions THEN last
               ELSE Last("history", k, HistoryStatus(sessions, k, now),
                         IF getSessionFound(sessions, k, now)
                         THEN sessions[k].messages[1].content.src ELSE "-",
                         FALSE, getMessagesTrims(sessions, k, now), FALSE, FALSE)
    /\ UNCHANGED <<now, nextId, trim, client>>

(* setInterval(() => this.cleanupOldSessions(), 300000) *)
Cleanup ==
    /\ sessions' = cleanupOldSessions(sessions, now)
    /\ inflight' = AfterCleanup(inflight, sessions, now)
    /\ last' = IF sessions' = sessions THEN last
               ELSE Last("cleanup", "-", 0, "-", FALSE, FALSE, TRUE, FALSE)
    /\ UNCHANGED <<now, nextId, trim, client>>

(* chatManager.clearSession(packetId) *)
Clear(k) ==
    /\ sessions' = clearSession(sessions, k)
    /\ inflight' = IF k \in DOMAIN sessions THEN Detach(inflight, sessions, k) ELSE inflight
    /\ last' = IF sessions' = sessions THEN last
               ELSE Last("clearSession", k, 0, "-", FALSE, FALSE,
                         clearSessionResult(sessions, k), FALSE)
    /\ UNCHANGED <<now, nextId, trim, client>>

(* GET /api/memory *)
Memory ==
    /\ sessions' = getStats(sessions)
    /\ UNCHANGED <<now, inflight, nextId, last, trim, client>>

\* The instants at which the model looks at the clock: 0, 1, TTL + 1, TTL + 2,
\* 2 * TTL + 2, ...  Two of them lie 1 ms, exactly TTL, or more than TTL apart.
TicksDone == 2 * (now \div (CHAT_SESSION_TTL + 1)) + (now % (CHAT_SESSION_TTL + 1))

(* time passes, to the next instant *)
Tick ==
    /\ TicksDone < MaxTicks
    /\ now' = now + (IF now % (CHAT_SESSION_TTL + 1) = 0 THEN 1 ELSE CHAT_SESSION_TTL)
    /\ last' = Last("tick", "-", 0, "-", FALSE, FALSE, FALSE, FALSE)
    /\ UNCHANGED <<sessions, inflight, nextId, trim, client>>

Next ==
    \/ \E k \in Keys, n \in EvaluationLengths : EvaluateStart(k, n)
    \/ \E r \in inflight : EvaluateFail(r)
    \/ \E r \in inflight, n \in ResponseLengths, valid \in BOOLEAN :
          EvaluateReply(r, n, valid)
    \/ \E k \in Keys : AskNotFound(k)
    \/ \E k \in Keys, n \in QuestionLengths : AskStart(k, n)
    \/ \E r \in inflight : AskFail(r)
    \/ \E r \in inflight, n \in ResponseLengths : AskReply(r, n)
    \/ \E k \in Keys : History(k)
    \/ Cleanup
    \/ \E k \in Keys : Clear(k)
    \/ Memory
    \/ Tick

Spec == Init /\ [][Next]_vars

----------------------------------------------------------------------------
(* trimToContextWindow called on its own, on any message list *)

\* a short text, one that fills the window exactly next to a long one, a long one
TrimLengths == {40, 9914, 10770}

\* the two prompts of the server, and two prompts of 5500 and 5501 estimated
\* tokens (createSession takes any initialSystemPrompt)
TrimAnchors ==
    {Trim(SYSTEM_PROMPT), Trim(CHAT_SYSTEM_PROMPT),
     Text("prompt", 0, 21970, 0, 0, 0), Text("prompt", 0, 21974, 0, 0, 0)}

\* system, user, assistant, user, ... as the handlers build a session
TrimBody(f) ==
    [i \in DOMAIN f |->
        Message(IF i % 2 = 1 THEN "user" ELSE "assistant", Text("text", i, f[i], 2, 0, 0))]

TrimInputs ==
    {<<>>} \cup
    UNION {{<<Message("system", a)>> \o TrimBody(f) :
               a \in TrimAnchors, f \in [1..n -> TrimLengths]} : n \in 0..MaxTrimLen}

TrimInit ==
    /\ sessions = <<>>
    /\ now = 0
    /\ client = NoPage
    /\ inflight = {}
    /\ nextId = [k \in Keys |-> 1]
    /\ last = Last("start", "-", 0, "-", FALSE, FALSE, FALSE, FALSE)
    /\ trim \in {Call(m, <<>>, FALSE) : m \in TrimInputs}

TrimApply ==
    /\ ~trim.applied
    /\ trim' = Call(trim.messages, trimToContextWindow(trim.messages), TRUE)
    /\ UNCHANGED <<sessions, now, inflight, nextId, last, client>>

TrimNext == TrimApply

TrimSpec == TrimInit /\ [][TrimNext]_vars

----------------------------------------------------------------------------
(* estimateTokens called on its own, on a text of any length up to            *)
(* MaxTextLen: `trim` holds the length and the estimate                       *)

MaxTextLen == 120

EstimateInit ==
    /\ sessions = <<>>
    /\ now = 0
    /\ client = NoPage
    /\ inflight = {}
    /\ nextId = [k \in Keys |-> 1]
    /\ last = Last("start", "-", 0, "-", FALSE, FALSE, FALSE, FALSE)
    /\ trim \in {Call(n, 0, FALSE) : n \in 0..MaxTextLen}

\* a call, the first or a later one on the same text
EstimateApply ==
    /\ trim' = Call(trim.messages, estimateTokens(trim.messages), TRUE)
    /\ UNCHANGED <<sessions, now, inflight, nextId, last, client>>

EstimateNext == EstimateApply

EstimateSpec == EstimateInit /\ [][EstimateNext]_vars

----------------------------------------------------------------------------
(* addMessage followed by getMessages, as both handlers call them, on a      *)
(* session with any history: `trim` holds the message and what is read back  *)

MaxHistory == 3

\* a short text, a long one, and one that alone exceeds the window left by
\* the anchor and the reserve
AppendLengths == {40, 10770, 22000}

AppendHistories ==
    UNION {{<<Message("system", a)>> \o TrimBody(f) :
               a \in {Trim(SYSTEM_PROMPT), Trim(CHAT_SYSTEM_PROMPT)},
               f \in [1..n -> AppendLengths]} : n \in 0..MaxHistory}

AppendInit ==
    /\ sessions \in {[k \in {"p1"} |-> [messages |-> h, createdAt |-> 0, lastAccess |-> 0]] :
                        h \in AppendHistories}
    /\ now = 0
    /\ client = NoPage
    /\ inflight = {}
    /\ nextId = [k \in Keys |-> 1]
    /\ last = Last("start", "-", 0, "-", FALSE, FALSE, FALSE, FALSE)
    /\ trim = NoCall

\* chatManager.addMessage(packetId, role, text);
\* messages = chatManager.getMessages(packetId)
AppendRead(role, n) ==
    /\ ~trim.applied
    /\ LET text == Text("text", Len(sessions["p1"].messages), n, 2, 0, 0)
           S1 == addMessage(sessions, "p1", role, text, NoPrompt, now)
       IN /\ sessions' = getMessages(S1, "p1", now)
          /\ trim' = Call(<<Message(role, text)>>, getMessagesResult(S1, "p1", now), TRUE)
    /\ UNCHANGED <<now, inflight, nextId, last, client>>

AppendNext == \E role \in {"user", "assistant"}, n \in AppendLengths : AppendRead(role, n)

AppendSpec == AppendInit /\ [][AppendNext]_vars

----------------------------------------------------------------------------
(* getMessages called again and again on a session with any message list,   *)
(* nothing else touching it: `trim` holds the list stored before the first  *)
(* call and what the latest call returned, `last` whether it trimmed        *)

ReadInit ==
    /\ sessions \in {[k \in {"p1"} |-> [messages |-> h, createdAt |-> 0, lastAccess |-> 0]] :
                        h \in TrimInputs \ {<<>>}}
    /\ now = 0
    /\ client = NoPage
    /\ inflight = {}
    /\ nextId = [k \in Keys |-> 1]
    /\ last = Last("start", "-", 0, "-", FALSE, FALSE, FALSE, FALSE)
    /\ trim = NoCall

\* messages = chatManager.getMessages(packetId)
Read ==
    /\ sessions' = getMessages(sessions, "p1", now)
    /\ trim' = Call(IF trim.applied THEN trim.messages ELSE sessions["p1"].messages,
                    getMessagesResult(sessions, "p1", now), TRUE)
    /\ last' = Last("history", "p1", HistoryStatus(sessions, "p1", now),
                    sessions["p1"].messages[1].content.src, FALSE,
                    getMessagesTrims(sessions, "p1", now), FALSE, FALSE)
    /\ UNCHANGED <<now, inflight, nextId, client>>

ReadNext == Read

ReadSpec == ReadInit /\ [][ReadNext]_vars

----------------------------------------------------------------------------
(* Evaluation requests only, on one packet, with contexts of three lengths:  *)
(* short, long, and so long that two of them do not fit the window together  *)

FirstLengths == {40, 10770, 12000}

FirstNext ==
    \/ \E n \in FirstLengths : EvaluateStart("p1", n)
    \/ \E r \in inflight : EvaluateFail(r)
    \/ \E r \in inflight, n \in ResponseLengths, valid \in BOOLEAN :
          EvaluateReply(r, n, valid)

FirstSpec == Init /\ [][FirstNext]_vars

----------------------------------------------------------------------------
(* The two POST handlers with the checks they make on the request before    *)
(* they touch chatManager, on one packet                                    *)

\* a field the request body does not have
Missing == "undefined"

\* what POST /api/evaluate reads before it evaluates: req.body.packetId,
\* contextResp.ok, contextPackets.length, and whether find() meets the target
EvaluateRequest(packetId, sourceOk, packets, hasTarget) ==
    [packetId |-> packetId, sourceOk |-> sourceOk, packets |-> packets,
     hasTarget |-> hasTarget]

EvaluateRequests ==
    {EvaluateRequest(k, ok, n, n > 0 /\ target) :
        k \in {"p1", Missing}, ok \in BOOLEAN, n \in {0, 3}, target \in BOOLEAN}

\* the status of its early returns, 0 when it goes on to evaluate
EvaluateRejection(req) ==
    IF req.packetId = Missing THEN 400
    ELSE IF ~req.sourceOk THEN 404
    ELSE IF req.packets = 0 THEN 404
    ELSE IF ~req.hasTarget THEN 404
    ELSE 0

\* what POST /api/chat/ask reads: req.body.packetId and req.body.question
AskRequest(packetId, question) == [packetId |-> packetId, question |-> question]

\* no question, a number, "", blanks only
BadQuestions ==
    {Text(Missing, 0, 0, 0, 0, 0), Text("number", 0, 2, 0, 0, 0),
     Text("text", 0, 0, 0, 0, 0), Text("text", 0, 2, 0, 2, 0)}

AskRequests ==
    {AskRequest(k, q) :
        k \in {"p1", Missing}, q \in BadQuestions \cup {QuestionText(0, 40)}}

\* !question || typeof question !== 'string' || question.trim().length === 0
QuestionRefused(question) ==
    \/ question.src = Missing \/ question.len = 0
    \/ question.src # "text"
    \/ Trim(question).len = 0

\* the status of its early returns on the request alone, 0 when it goes on to
\* look the session up
AskRejection(req) ==
    IF req.packetId = Missing THEN 400
    ELSE IF QuestionRefused(req.question) THEN 400
    ELSE 0

\* a handler that gets or creates the session before it checks the request
EvaluateRejectedAfterCreate(req) ==
    /\ EvaluateRejection(req) # 0
    /\ sessions' = getOrCreate(sessions, req.packetId, now)
    /\ last' = Last("evaluate", req.packetId, EvaluateRejection(req), "-",
                    FALSE, FALSE, FALSE, FALSE)
    /\ UNCHANGED <<now, inflight, nextId, trim, client>>

\* POST /api/evaluate returning early
EvaluateRejected(req) ==
    /\ EvaluateRejection(req) # 0
    /\ last' = Last("evaluate", req.packetId, EvaluateRejection(req), "-",
                    FALSE, FALSE, FALSE, FALSE)
    /\ UNCHANGED <<sessions, now, inflight, nextId, trim, client>>

\* POST /api/chat/ask returning early
AskRejected(req) ==
    /\ AskRejection(req) # 0
    /\ last' = Last("ask", req.packetId, AskRejection(req), "-",
                    FALSE, FALSE, FALSE, FALSE)
    /\ UNCHANGED <<sessions, now, inflight, nextId, trim, client>>

RejectNext ==
    \/ \E req \in EvaluateRequests : EvaluateRejected(req)
    \/ \E req \in EvaluateRequests, n \in EvaluationLengths :
          EvaluateRejection(req) = 0 /\ EvaluateStart(req.packetId, n)
    \/ \E r \in inflight, n \in ResponseLengths, valid \in BOOLEAN :
          EvaluateReply(r, n, valid)
    \/ \E req \in AskRequests : AskRejected(req)
    \/ \E req \in AskRequests :
          /\ AskRejection(req) = 0
          /\ AskStart(req.packetId, req.question.len - req.question.ws)
    \/ \E r \in inflight, n \in ResponseLengths : AskReply(r, n)
    \/ Tick

RejectSpec == Init /\ [][RejectNext]_vars

----------------------------------------------------------------------------
(* The page, from its load on: clicks on the two buttons and the answers of  *)
(* the monitoring endpoints, in any order                                    *)

ClientInit ==
    /\ sessions = <<>>
    /\ now = 0
    /\ inflight = {}
    /\ nextId = [k \in Keys |-> 1]
    /\ last = Last("start", "-", 0, "-", FALSE, FALSE, FALSE, FALSE)
    /\ trim = NoCall
    /\ client \in {Constructed(a, b) : a, b \in BOOLEAN}

ClientNext ==
    \/ \E isSniffing \in BOOLEAN : StatusResponse(isSniffing)
    \/ StatusError
    \/ StartClick
    \/ \E ok \in BOOLEAN : StartResponse(ok)
    \/ StopClick
    \/ \E ok \in BOOLEAN : StopResponse(ok)

ClientSpec == ClientInit /\ [][ClientNext]_vars

\* the n-th instant of the clock
Instant(n) == (n \div 2) * (CHAT_SESSION_TTL + 1) + (n % 2)

\* the last instant the model looks at
LastInstant == Instant(MaxTicks)

\* Time passes, and the timer the constructor sets calls cleanupOldSessions
\* again and again; no request is bound to arrive.
FairSpec == Spec /\ WF_vars(Tick) /\ WF_vars(Cleanup)

----------------------------------------------------------------------------
(* Evaluations of ever new packets: the store as a list of sessions by the  *)
(* number of the packet                                                     *)

\* the limit the documentation names (no code reads it)
MAX_CHAT_SESSIONS == 100

MaxPackets == 101

ManyInit ==
    /\ sessions = <<>>
    /\ now = 0
    /\ client = NoPage
    /\ inflight = {}
    /\ nextId = [k \in Keys |-> 1]
    /\ last = Last("start", "-", 0, "-", FALSE, FALSE, FALSE, FALSE)
    /\ trim = NoCall

\* evaluatePacketWithContext for the next packet, up to the inference call
ManyEvaluate ==
    /\ Len(sessions) < MaxPackets
    /\ LET k == Len(sessions) + 1
           S2 == getOrCreate(sessions, k, now)
           S3 == addMessage(S2, k, "user", EvaluationText(1, 40), NoPrompt, now)
       IN sessions' = getMessages(S3, k, now)
    /\ UNCHANGED <<now, inflight, nextId, last, trim, client>>

ManyNext == ManyEvaluate

ManySpec == ManyInit /\ [][ManyNext]_vars

----------------------------------------------------------------------------
(* Properties *)

\* a handler has just read a session (and changed it or the in-flight set)
ReadDone ==
    /\ last.op \in {"evaluate", "ask", "history"}
    /\ last.status \in {0, 200}

\* ... which it got from getMessages as
LastRead == sessions[last.key].messages

ChatAnchor == Message("system", Trim(CHAT_SYSTEM_PROMPT))

EvaluationAnchor == Message("system", Trim(SYSTEM_PROMPT))

\* idle time of the session stored under k
Idle(k) == now - sessions[k].lastAccess

\* C1. Anchor invariance: every stored session has a non-empty message list
\* whose index 0 is the system message holding one of the two prompts, and no
\* other message is a system message; a read of a live session (trimming or
\* not) returns a list whose index 0 is that message; and no step but the
\* anchor switch changes index 0 of a session that stays stored.
AnchorInvariance ==
    /\ [](\A k \in DOMAIN sessions :
             LET m == sessions[k].messages IN
             /\ Len(m) >= 1
             /\ m[1] \in {EvaluationAnchor, ChatAnchor}
             /\ \A i \in 2..Len(m) : m[i].role # "system"
             /\ Idle(k) <= CHAT_SESSION_TTL =>
                   /\ getMessagesResult(sessions, k, now) # <<>>
                   /\ getMessagesResult(sessions, k, now)[1] = m[1])
    /\ [][\A k \in DOMAIN sessions :
             (/\ Idle(k) <= CHAT_SESSION_TTL
              /\ k \in DOMAIN sessions'
              /\ ~(last'.key = k /\ last'.switched))
             => sessions'[k].messages[1] = sessions[k].messages[1]]_vars

\* a read has just trimmed a session and kept part of its history
AnchorInvarianceWitness ==
    /\ ReadDone /\ last.trimmed
    /\ Len(LastRead) >= 2

\* C2. Suffix property: the result of trimToContextWindow is index 0 of its
\* argument followed by a contiguous suffix of the other messages, in order.
SuffixProperty ==
    trim.applied /\ trim.messages # <<>> =>
        \E j \in 2..(Len(trim.messages) + 1) :
            trim.result = <<trim.messages[1]>> \o
                          SubSeq(trim.messages, j, Len(trim.messages))

\* a call that kept some of the history and dropped some, although an older
\* message than the newest dropped one would still have fitted
SuffixPropertyWitness ==
    /\ trim.applied
    /\ 1 < Len(trim.result) /\ Len(trim.result) < Len(trim.messages)
    /\ \E i \in 2..(Len(trim.messages) - Len(trim.result)) :
          getTotalTokens(trim.result) + MsgTokens(trim.messages[i])
              <= maxContextTokens - responseReserve

\* C3. Budget respect: when the anchor costs at most budget - reserve the
\* result costs at most budget - reserve in total; otherwise it is <<anchor>>.
BudgetRespect ==
    trim.applied /\ trim.messages # <<>> =>
        IF MsgTokens(trim.messages[1]) <= maxContextTokens - responseReserve
        THEN getTotalTokens(trim.result) <= maxContextTokens - responseReserve
        ELSE trim.result = <<trim.messages[1]>>

\* a call on a list that costs more than budget - reserve and less than budget
BudgetRespectWitness ==
    /\ trim.applied
    /\ getTotalTokens(trim.messages) > maxContextTokens - responseReserve
    /\ getTotalTokens(trim.messages) <= maxContextTokens
    /\ Len(trim.result) > 1

\* C4. Read applies the retention policy: what getMessages returns for a live
\* session whose anchor costs at most budget - reserve is the trimmed list of
\* the stored messages, and costs at most budget - reserve.
ReadAppliesRetention ==
    \A k \in DOMAIN sessions :
        (/\ Idle(k) <= CHAT_SESSION_TTL
         /\ MsgTokens(sessions[k].messages[1]) <= maxContextTokens - responseReserve)
        => /\ getMessagesResult(sessions, k, now)
                  = trimToContextWindow(sessions[k].messages)
           /\ getTotalTokens(getMessagesResult(sessions, k, now))
                  <= maxContextTokens - responseReserve

\* C5. Maximal retention: when a message is dropped, the kept suffix together
\* with the newest dropped message costs more than budget - anchor - reserve.
MaximalRetention ==
    trim.applied /\ Len(trim.result) < Len(trim.messages) =>
        LET newestDropped == trim.messages[Len(trim.messages) - Len(trim.result) + 1]
        IN getTotalTokens(Tail(trim.result)) + MsgTokens(newestDropped)
               > maxContextTokens - MsgTokens(trim.messages[1]) - responseReserve

\* a call that dropped a message and kept a suffix filling the window exactly
MaximalRetentionWitness ==
    /\ trim.applied
    /\ Len(trim.result) < Len(trim.messages)
    /\ getTotalTokens(trim.result) = maxContextTokens - responseReserve

\* C6. The first accepted follow-up question leaves the chat prompt at index 0,
\* whatever evaluation requests came before it.
FirstAskSwitchesAnchor ==
    last.op = "ask" /\ last.status = 0 => LastRead[1] = ChatAnchor

\* C7. Mode switch idempotence: a switch applied to a session whose anchor is
\* the chat prompt already changes nothing: the handler only appends its
\* question to the messages it found.
SwitchIdempotent ==
    [][\A k \in Keys :
          (/\ last'.op = "ask" /\ last'.key = k /\ last'.switched
           /\ ~last'.trimmed
           /\ sessions[k].messages[1] = ChatAnchor)
          => SubSeq(sessions'[k].messages, 1, Len(sessions[k].messages))
                 = sessions[k].messages]_vars

\* a follow-up has switched the anchor of a session that held the chat prompt
SwitchIdempotentWitness ==
    /\ last.op = "ask" /\ last.switched
    /\ last.anchor = "CHAT_SYSTEM_PROMPT"

\* C8. TTL expiration: cleanupOldSessions leaves no session idle for more than
\* the TTL in the store, and a key without a session, or whose session is idle
\* for more than the TTL, reads as not found: getMessages returns null, the
\* handlers answer 404, and the store holds nothing under the key afterwards.
TTLExpiration ==
    /\ \A k \in DOMAIN cleanupOldSessions(sessions, now) : Idle(k) <= CHAT_SESSION_TTL
    /\ last.op = "cleanup" => \A k \in DOMAIN sessions : Idle(k) <= CHAT_SESSION_TTL
    /\ \A k \in Keys :
          (k \notin DOMAIN sessions \/ Idle(k) > CHAT_SESSION_TTL)
          => /\ getMessagesResult(sessions, k, now) = <<>>
             /\ HistoryStatus(sessions, k, now) = 404
             /\ AskStatus(sessions, k, now) = 404
             /\ k \notin DOMAIN getMessages(sessions, k, now)

\* cleanupOldSessions has just deleted a session
TTLExpirationWitness ==
    /\ last.op = "cleanup" /\ last.deleted
    /\ \E k \in Keys : nextId[k] > 1 /\ k \notin DOMAIN sessions

\* C9. No premature expiry: a session idle for at most the TTL (exactly the TTL
\* included) stays stored through every step but its own clearSession; it is
\* found by getMessages and the handlers, and addMessage appends to it.
NoPrematureExpiry ==
    /\ [](\A k \in DOMAIN sessions :
             Idle(k) <= CHAT_SESSION_TTL
             => /\ k \in DOMAIN cleanupOldSessions(sessions, now)
                /\ getMessagesResult(sessions, k, now) # <<>>
                /\ HistoryStatus(sessions, k, now) = 200
                /\ AskStatus(sessions, k, now) # 404
                /\ LET S == addMessage(sessions, k, "user", EvaluationText(0, 40),
                                       NoPrompt, now)
                   IN /\ Len(S[k].messages) = Len(sessions[k].messages) + 1
                      /\ S[k].createdAt = sessions[k].createdAt)
    /\ [][\A k \in DOMAIN sessions :
             (/\ Idle(k) <= CHAT_SESSION_TTL
              /\ ~(last'.op = "clearSession" /\ last'.key = k))
             => k \in DOMAIN sessions']_vars

\* the clock has just reached the instant at which a stored session is idle
\* for exactly the TTL
NoPrematureExpiryWitness ==
    /\ last.op = "tick"
    /\ \E k \in DOMAIN sessions : Idle(k) = CHAT_SESSION_TTL

\* C10. lastAccess is refreshed by every append and every read: after
\* addMessage or getMessages on a live session its lastAccess is the time of
\* the call.
AccessRefreshesLastAccess ==
    \A k \in DOMAIN sessions :
        Idle(k) <= CHAT_SESSION_TTL
        => /\ addMessage(sessions, k, "user", EvaluationText(0, 40), NoPrompt,
                         now)[k].lastAccess = now
           /\ getMessages(sessions, k, now)[k].lastAccess = now

\* C11. An append without a live session and without anchor content fails and
\* leaves the store as it is: when the answer of the inference call is appended
\* for a key that has no live session by then, no session is stored under the
\* key afterwards.
AppendWithoutSessionFails ==
    [][\A k \in Keys :
          (/\ ~getSessionFound(sessions, k, now)
           /\ last'.op \in {"evaluateReply", "askReply"}
           /\ last'.key = k
           /\ nextId'[k] # nextId[k])
          => k \notin DOMAIN sessions']_vars

\* C12. Read and follow-up on a missing session: for a key never created,
\* cleared or idle for more than the TTL, getMessages returns null and the
\* question and history handlers answer 404; the call leaves nothing under the
\* key, leaves every other session as it was, appends no message and starts no
\* inference call.
MissingSessionNotFound ==
    /\ [](\A k \in Keys :
             ~getSessionFound(sessions, k, now)
             => /\ getMessagesResult(sessions, k, now) = <<>>
                /\ AskStatus(sessions, k, now) = 404
                /\ HistoryStatus(sessions, k, now) = 404
                /\ HistoryMessages(sessions, k, now) = <<>>
                /\ getMessages(sessions, k, now) = Remove(sessions, k))
    /\ [][last'.status = 404 /\ last' # last
          => /\ last'.op \in {"ask", "history"}
             /\ ~getSessionFound(sessions, last'.key, now)
             /\ sessions' = Remove(sessions, last'.key)
             /\ nextId' = nextId
             /\ {[kind |-> r.kind, key |-> r.key, id |-> r.id] : r \in inflight'}
                    = {[kind |-> r.kind, key |-> r.key, id |-> r.id] : r \in inflight}]_vars

\* a question has just been refused for a key whose session had expired
MissingSessionNotFoundWitness ==
    /\ last.op = "ask" /\ last.status = 404
    /\ last.key \notin DOMAIN sessions
    /\ nextId[last.key] > 1

\* C13. Isolation: a handler step or clearSession on one key leaves every
\* other key as it was: stored or not, and if stored with the same messages,
\* createdAt and lastAccess; as does each manager call on its own.  (Were two
\* keys to share a message list, an append under one would show under the other.)
Isolation ==
    /\ [][\A b \in Keys :
             last'.key \in Keys \ {b}
             => /\ (b \in DOMAIN sessions') = (b \in DOMAIN sessions)
                /\ b \in DOMAIN sessions => sessions'[b] = sessions[b]]_vars
    /\ [](\A a \in Keys : \A b \in DOMAIN sessions \ {a} :
             \A S \in {createSession(sessions, a, SYSTEM_PROMPT, now),
                       addMessage(sessions, a, "user", EvaluationText(0, 40), NoPrompt, now),
                       getMessages(sessions, a, now),
                       getSession(sessions, a, now),
                       clearSession(sessions, a)} :
                 b \in DOMAIN S /\ S[b] = sessions[b])

\* a read under one key has just trimmed its session while another key holds
\* a session
IsolationWitness ==
    /\ last.key \in Keys /\ last.trimmed
    /\ \E b \in DOMAIN sessions : b # last.key

\* C14 (as claimed). The get-or-create step of an evaluation returns a live
\* session with its history kept.
GetOrCreateKeepsHistory ==
    \A k \in DOMAIN sessions :
        Idle(k) <= CHAT_SESSION_TTL
        => getOrCreate(sessions, k, now)[k].messages = sessions[k].messages

\* C14 (amended). The get-or-create step of an evaluation returns a live
\* session as a read returns it: created when it was, its history kept whole
\* unless it costs more than the context window, and then trimmed to the anchor
\* and the newest messages that fit.  For an absent or expired key it leaves a
\* session created now whose only message is the anchor with the evaluation
\* prompt, so that the evaluation's session is that anchor and its own message.
GetOrCreate ==
    /\ [](\A k \in Keys :
             LET S == getOrCreate(sessions, k, now)
             IN /\ k \in DOMAIN S
                /\ Remove(S, k) = Remove(sessions, k)
                /\ IF k \in DOMAIN sessions /\ Idle(k) <= CHAT_SESSION_TTL
                   THEN /\ S[k].createdAt = sessions[k].createdAt
                        /\ S[k].lastAccess = sessions[k].lastAccess
                        /\ S[k].messages =
                             IF getTotalTokens(sessions[k].messages) <= maxContextTokens
                             THEN sessions[k].messages
                             ELSE trimToContextWindow(sessions[k].messages)
                   ELSE S[k] = [messages |-> <<EvaluationAnchor>>,
                                createdAt |-> now, lastAccess |-> now])
    /\ [][\A k \in Keys :
             (/\ last'.op = "evaluate" /\ last'.key = k /\ nextId'[k] # nextId[k]
              /\ ~getSessionFound(sessions, k, now))
             => /\ Len(sessions'[k].messages) = 2
                /\ sessions'[k].messages[1] = EvaluationAnchor
                /\ sessions'[k].messages[2].content.id = nextId[k]
                /\ sessions'[k].createdAt = now]_vars

\* an evaluation, more than the TTL after the start, has just created the
\* session of a key that had a session before
GetOrCreateWitness ==
    /\ last.op = "evaluate"
    /\ nextId[last.key] > 2
    /\ sessions[last.key].createdAt = now
    /\ now > CHAT_SESSION_TTL
    /\ Len(sessions[last.key].messages) = 2

\* C15. The number of stored sessions never exceeds MAX_CHAT_SESSIONS.
SessionCountCapped == Cardinality(DOMAIN sessions) <= MAX_CHAT_SESSIONS

\* C16. Concurrent appends are not destructive: whatever requests are in
\* flight, a step that appends to a live session without trimming it leaves
\* the earlier non-anchor messages as they were, followed by the one new
\* message, and ends no request but the one it answers; no stored session
\* ever holds a message twice.
ConcurrentAppends ==
    /\ [](\A k \in DOMAIN sessions :
             \A i, j \in 2..Len(sessions[k].messages) :
                 i < j => sessions[k].messages[i].content.id
                              < sessions[k].messages[j].content.id)
    /\ [][\A k \in Keys :
             (/\ getSessionFound(sessions, k, now)
              /\ nextId'[k] # nextId[k]
              /\ ~last'.trimmed)
             => /\ k \in DOMAIN sessions'
                /\ Len(sessions'[k].messages) = Len(sessions[k].messages) + 1
                /\ Tail(SubSeq(sessions'[k].messages, 1, Len(sessions[k].messages)))
                       = Tail(sessions[k].messages)
                /\ sessions'[k].messages[Len(sessions'[k].messages)].content.id
                       = nextId[k]
                /\ LET lost == {<<r.key, r.id>> : r \in inflight}
                                   \ {<<r.key, r.id>> : r \in inflight'}
                   IN IF last'.op \in {"evaluateReply", "askReply"}
                      THEN Cardinality(lost) = 1 /\ \A x \in lost : x[1] = k
                      ELSE lost = {}]_vars

\* an answer has just been appended while another request on the same key is
\* in flight, and the session holds every text sent for the key
ConcurrentAppendsWitness ==
    /\ last.op \in {"evaluateReply", "askReply"} /\ last.status = 200
    /\ \E r \in inflight : r.key = last.key
    /\ nextId[last.key] >= 4
    /\ Len(sessions[last.key].messages) = nextId[last.key]

\* C17. Alternating roles: the non-anchor messages of a stored session never
\* have two neighbours with the same role.
AlternatingRoles ==
    \A k \in DOMAIN sessions :
        \A i \in 2..(Len(sessions[k].messages) - 1) :
            sessions[k].messages[i].role # sessions[k].messages[i + 1].role

StatsReadOnly ==
    /\ getStats(sessions) = sessions
    /\ getStatsResult(sessions).activeSessions = Cardinality(DOMAIN sessions)
    /\ getStatsResult(sessions).totalMessages
           = Cardinality(UNION {{<<k, i>> : i \in 1..Len(sessions[k].messages)} :
                                k \in DOMAIN sessions})

\* two sessions of different lengths are stored
StatsReadOnlyWitness ==
    /\ Cardinality(DOMAIN sessions) = 2
    /\ \E a, b \in DOMAIN sessions :
           Len(sessions[a].messages) > Len(sessions[b].messages) + 1
    /\ getStatsResult(sessions).totalMessages >= 5

\* C20. clear: clearSession(key) returns true exactly when a session is stored
\* under the key; it leaves nothing under the key, so that getMessages returns
\* null, and leaves every other key's session as it was.
ClearSession ==
    /\ [](\A k \in Keys :
             LET S == clearSession(sessions, k)
             IN /\ clearSessionResult(sessions, k) = (k \in DOMAIN sessions)
                /\ DOMAIN S = DOMAIN sessions \ {k}
                /\ getMessagesResult(S, k, now) = <<>>
                /\ \A b \in DOMAIN S : S[b] = sessions[b])
    /\ [][last'.op = "clearSession" /\ sessions' # sessions
          => /\ last'.deleted
             /\ last'.key \in DOMAIN sessions
             /\ DOMAIN sessions' = DOMAIN sessions \ {last'.key}
             /\ \A b \in DOMAIN sessions' : sessions'[b] = sessions[b]]_vars

\* clearSession has just deleted one session and another is stored
ClearSessionWitness ==
    /\ last.op = "clearSession" /\ last.deleted
    /\ last.key \notin DOMAIN sessions
    /\ DOMAIN sessions # {}

\* C21. Sweep idempotence: cleanupOldSessions run a second time at the same
\* time leaves the store the first run left.
SweepIdempotent ==
    /\ cleanupOldSessions(cleanupOldSessions(sessions, now), now)
           = cleanupOldSessions(sessions, now)
    /\ last.op = "cleanup" => cleanupOldSessions(sessions, now) = sessions

\* cleanupOldSessions has just deleted a session and kept another
SweepIdempotentWitness ==
    /\ last.op = "cleanup" /\ last.deleted
    /\ DOMAIN sessions # {}

\* C22. Graceful degradation: trimToContextWindow returns a list for every
\* list (the empty one for the empty one), and when the window left by the
\* anchor and the reserve is zero or less it returns the anchor alone.
AnchorOnly ==
    trim.applied
    => /\ trim.messages = <<>> => trim.result = <<>>
       /\ \A i \in 1..Len(trim.result) : \E j \in 1..Len(trim.messages) :
              trim.result[i] = trim.messages[j]
       /\ (/\ trim.messages # <<>>
           /\ maxContextTokens - MsgTokens(trim.messages[1]) - responseReserve <= 0)
          => trim.result = <<trim.messages[1]>>

\* a call on an anchor that leaves a window of exactly zero, with a body
AnchorOnlyWitness ==
    /\ trim.applied
    /\ Len(trim.messages) > 1
    /\ maxContextTokens - MsgTokens(trim.messages[1]) - responseReserve = 0
    /\ Len(trim.result) = 1

\* C23. Message immutability: through every step, the non-anchor messages of
\* a session that stays stored are messages it held before, with their role and
\* content, or the one message the step appends, and they stay in the order
\* they were appended in; the anchor changes only in the step that switches
\* the session to the chat prompt.
MessageImmutability ==
    [][\A k \in DOMAIN sessions \cap DOMAIN sessions' :
          sessions'[k].createdAt = sessions[k].createdAt
          => LET old == sessions[k].messages
                 new == sessions'[k].messages
             IN /\ \A i \in 2..Len(new) :
                       \/ \E j \in 2..Len(old) : new[i] = old[j]
                       \/ i = Len(new) /\ new[i].content.id = nextId[k]
                                       /\ nextId'[k] = nextId[k] + 1
                /\ \A i, j \in 2..Len(new) :
                       i < j => new[i].content.id < new[j].content.id
                /\ new[1] # old[1]
                   => /\ last'.switched /\ last'.key = k
                      /\ new[1] = ChatAnchor]_vars

\* a read has just trimmed a session and kept two messages after the anchor
MessageImmutabilityWitness ==
    /\ last.trimmed
    /\ Len(sessions[last.key].messages) >= 3

\* C24. Cost estimate: estimateTokens of a text is its length divided by
\* charsPerToken and rounded up (the least t with t * charsPerToken >= length),
\* a later call on the same text gives the same estimate, and no shorter text
\* has a greater estimate.
CostEstimate ==
    /\ [](trim.applied
          => /\ trim.result * charsPerToken >= trim.messages
             /\ (trim.result - 1) * charsPerToken < trim.messages
             /\ \A n \in 0..trim.messages : estimateTokens(n) <= trim.result)
    /\ [][trim.applied => trim'.result = trim.result]_vars

\* the estimate of a text whose length is not a multiple of charsPerToken
CostEstimateWitness ==
    /\ trim.applied
    /\ trim.messages > charsPerToken
    /\ trim.messages % charsPerToken # 0

\* C25. The message just appended reaches the model: what getMessages returns
\* right after addMessage ends with the appended message.
AppendedMessageIsRead ==
    trim.applied
    => /\ trim.result # <<>>
       /\ trim.result[Len(trim.result)] = trim.messages[1]

\* C26. Mode is monotonic: through every step, a session that holds the chat
\* prompt at index 0 and stays stored (is not deleted, or deleted and created
\* anew) holds the chat prompt afterwards, evaluation requests included.
ModeMonotonic ==
    [][\A k \in DOMAIN sessions \cap DOMAIN sessions' :
          (/\ sessions[k].messages[1] = ChatAnchor
           /\ ~(Idle(k) > CHAT_SESSION_TTL /\ sessions'[k].createdAt = now))
          => sessions'[k].messages[1] = ChatAnchor]_vars

\* an evaluation request has just been appended to a session that holds the
\* chat prompt
ModeMonotonicWitness ==
    /\ last.op = "evaluate"
    /\ sessions[last.key].messages[1] = ChatAnchor
    /\ Len(sessions[last.key].messages) >= 3

\* C27. Lazy expiry: while a session idle for more than the TTL is still
\* stored (cleanupOldSessions has not run), getMessages returns null for its
\* key, and the first getSession deletes the entry, and only it; the step of a
\* handler that reads such a key leaves none of the old messages under it.
LazyExpiry ==
    /\ [](\A k \in DOMAIN sessions :
             Idle(k) > CHAT_SESSION_TTL
             => /\ getMessagesResult(sessions, k, now) = <<>>
                /\ DOMAIN getSession(sessions, k, now) = DOMAIN sessions \ {k}
                /\ \A b \in DOMAIN sessions \ {k} :
                       getSession(sessions, k, now)[b] = sessions[b]
                /\ getMessages(sessions, k, now) = getSession(sessions, k, now))
    /\ [][\A k \in DOMAIN sessions :
             (/\ Idle(k) > CHAT_SESSION_TTL
              /\ last'.key = k
              /\ last'.op \in {"evaluate", "ask", "history"})
             => \/ k \notin DOMAIN sessions'
                \/ \A i \in 2..Len(sessions'[k].messages) :
                       sessions'[k].messages[i].content.id >= nextId[k]]_vars

\* the history handler has just read a key whose expired session was still
\* stored, and deleted it
LazyExpiryWitness ==
    /\ last.op = "history" /\ last.status = 404
    /\ last.key \notin DOMAIN sessions
    /\ nextId[last.key] > 1

ConcurrentFirstEvaluations ==
    [][\A k \in DOMAIN sessions :
          (/\ Idle(k) <= CHAT_SESSION_TTL
           /\ last'.op = "evaluate" /\ last'.key = k /\ nextId'[k] # nextId[k])
          => LET old == sessions[k].messages
                 new == sessions'[k].messages
             IN /\ sessions'[k].createdAt = sessions[k].createdAt
                /\ \A i \in 1..Len(old) : \E j \in 1..Len(new) : new[j] = old[i]
                /\ new[Len(new)].content.id = nextId[k]]_vars

\* C29 (amended). ... leaves that session in place - created when it was, with
\* its anchor - and, unless the request's read trims the session to the
\* context window, with every message it held followed by the request's own
\* user message.
OneSessionCreated ==
    [][\A k \in DOMAIN sessions :
          (/\ Idle(k) <= CHAT_SESSION_TTL
           /\ last'.op = "evaluate" /\ last'.key = k /\ nextId'[k] # nextId[k])
          => LET old == sessions[k].messages
                 new == sessions'[k].messages
             IN /\ sessions'[k].createdAt = sessions[k].createdAt
                /\ new[1] = old[1]
                /\ ~last'.trimmed
                   => /\ Len(new) = Len(old) + 1
                      /\ SubSeq(new, 1, Len(old)) = old
                      /\ new[Len(new)].role = "user"
                      /\ new[Len(new)].content.id = nextId[k]]_vars

\* two evaluation requests on a new key are in flight, and the session holds
\* the user messages of both
OneSessionCreatedWitness ==
    /\ last.op = "evaluate" /\ ~last.trimmed
    /\ Cardinality({r \in inflight : r.key = last.key /\ r.kind = "evaluate"}) = 2
    /\ nextId[last.key] = 3
    /\ Len(sessions[last.key].messages) = 3

\* C30. First-evaluation validation: the answer to an evaluation request is
\* validated exactly when the request is the first of its session, that is when
\* its user message is the one that follows the anchor of the live session.
FirstEvaluationValidated ==
    [][\A r \in inflight :
          (/\ r.kind = "evaluate"
           /\ last'.op = "evaluateReply" /\ last'.key = r.key
           /\ nextId'[r.key] # nextId[r.key]
           /\ ~\E q \in inflight' : q.id = r.id /\ q.key = r.key)
          => (last'.validated
              <=> /\ getSessionFound(sessions, r.key, now)
                  /\ sessions[r.key].messages[2].content.id = r.id)]_vars

\* C31. No rollback on inference failure: a step that ends a request without
\* a response text entering the store (the inference call failed) answers 500
\* and leaves every session as it was: the request's user message stays where
\* it was, and no message is appended.
NoRollback ==
    [][\A r \in inflight :
          (/\ last'.op \in {"evaluateReply", "askReply"} /\ last'.key = r.key
           /\ ~\E q \in inflight' : q.id = r.id /\ q.key = r.key
           /\ nextId' = nextId)
          => /\ last'.status = 500
             /\ DOMAIN sessions' = DOMAIN sessions
             /\ \A k \in DOMAIN sessions :
                   sessions'[k].messages = sessions[k].messages]_vars

\* an inference call has just failed, and the user message of the request is
\* the last message of its session
NoRollbackWitness ==
    /\ last.op \in {"evaluateReply", "askReply"} /\ last.status = 500
    /\ ~last.validated
    /\ last.key \in DOMAIN sessions
    /\ LET m == sessions[last.key].messages IN
       /\ m[Len(m)].role = "user"
       /\ ~\E r \in inflight : r.key = last.key /\ r.id = m[Len(m)].content.id

\* C32. Rejected requests leave the store unchanged: an evaluation request
\* answered 400 or 404 and a follow-up request answered 400 create no session,
\* append no message, switch no anchor and trim nothing.
RejectedLeavesStore ==
    [][(\/ last'.status = 400
        \/ last'.op = "evaluate" /\ last'.status = 404)
       => /\ sessions' = sessions
          /\ inflight' = inflight
          /\ nextId' = nextId
          /\ ~last'.switched /\ ~last'.trimmed]_vars

\* a follow-up request has just been refused for a session that holds the
\* evaluation exchange under the evaluation prompt: an accepted question would
\* have switched the anchor
RejectedLeavesStoreWitness ==
    /\ last.op = "ask" /\ last.status = 400 /\ last.key = "p1"
    /\ "p1" \in DOMAIN sessions
    /\ Len(sessions["p1"].messages) = 3
    /\ sessions["p1"].messages[1] = EvaluationAnchor
    /\ Idle("p1") <= CHAT_SESSION_TTL

\* the text sent for k under this id was stored and is stored no longer
Gone(k, id) ==
    /\ id < nextId[k]
    /\ ~(/\ k \in DOMAIN sessions
         /\ \E j \in 2..Len(sessions[k].messages) :
               sessions[k].messages[j].content.id = id)

\* C33. Trimming in read is destructive and permanent: a step whose read trims
\* a session leaves the stored list shorter than what was stored and appended,
\* a read right after it returns that stored list, and getStats counts its
\* length; a message that is no longer stored never is again; and no read
\* returns a message that is not stored.
TrimIsPermanent ==
    /\ [][\A k \in DOMAIN sessions :
             (Idle(k) <= CHAT_SESSION_TTL /\ last'.key = k /\ last'.trimmed)
             => /\ k \in DOMAIN sessions'
                /\ Len(sessions'[k].messages)
                       < Len(sessions[k].messages)
                           + (IF nextId'[k] # nextId[k] THEN 1 ELSE 0)
                /\ getMessagesResult(sessions', k, now') = sessions'[k].messages
                /\ StatsLoop(sessions', {k}).totalMessages
                       = Len(sessions'[k].messages)]_vars
    /\ [][\A k \in Keys : \A id \in 1..(nextId[k] - 1) :
             Gone(k, id) => Gone(k, id)']_vars
    /\ [](\A k \in DOMAIN sessions :
             LET read == getMessagesResult(sessions, k, now) IN
             \A i \in 2..Len(read) :
                 \E j \in 2..Len(sessions[k].messages) : sessions[k].messages[j] = read[i])

\* a read has just trimmed a session that stays stored, and a message sent
\* for it earlier is gone
TrimIsPermanentWitness ==
    /\ last.op = "history" /\ last.trimmed
    /\ last.key \in DOMAIN sessions
    /\ Len(sessions[last.key].messages) >= 2
    /\ \E id \in 1..(nextId[last.key] - 1) : Gone(last.key, id)

\* C34. read and trim are idempotent: trimToContextWindow applied to its own
\* result returns it, for every message list; and a getMessages that follows
\* another with nothing in between returns the same list, trims nothing and
\* leaves the stored session as it was.
ReadIdempotent ==
    /\ [](LET m == sessions["p1"].messages IN
          trimToContextWindow(trimToContextWindow(m)) = trimToContextWindow(m))
    /\ [][trim.applied
          => /\ sessions' = sessions
             /\ trim'.result = trim.result
             /\ ~last'.trimmed]_vars

\* a second getMessages has just returned, after a first one that trimmed the
\* session and kept part of its history
ReadIdempotentWitness ==
    /\ trim.applied /\ ~last.trimmed /\ last.op = "history"
    /\ 1 < Len(trim.result) /\ Len(trim.result) < Len(trim.messages)
    /\ sessions["p1"].messages = trim.result

\* C35. activeSessions counts live sessions: the session count getStats
\* reports is the number of keys for which getMessages would return a list at
\* that moment.
ActiveSessionsAreLive ==
    getStatsResult(sessions).activeSessions
        = Cardinality({k \in Keys : getMessagesResult(sessions, k, now) # <<>>})

\* the user message evaluatePacketWithContext builds
IsEvaluationRequest(msg) ==
    /\ msg.role = "user"
    /\ msg.content = EvaluationText(msg.content.id, msg.content.len)

\* the messages of a list other than the anchor and the initial evaluation
\* exchange: the evaluation request that follows the anchor, and its answer
FollowUps(messages) ==
    IF Len(messages) >= 2 /\ IsEvaluationRequest(messages[2])
    THEN IF Len(messages) >= 3 /\ messages[3].role = "assistant"
         THEN SubSeq(messages, 4, Len(messages))
         ELSE SubSeq(messages, 3, Len(messages))
    ELSE Tail(messages)

\* C36. Chat history view shows exactly the follow-ups: for every live
\* session, what loadChatHistory renders is the list of the stored messages
\* other than the anchor and the initial evaluation exchange.
HistoryShowsFollowUps ==
    \A k \in DOMAIN sessions :
        Idle(k) <= CHAT_SESSION_TTL
        => loadChatHistory(sessions, k, now)
               = FollowUps(getMessagesResult(sessions, k, now))

\* C37. Client polling matches monitoring state: whatever the order of the
\* start, stop and status answers, a polling timer runs if and only if
\* isMonitoring is true, and at most one polling timer exists.
PollingMatchesMonitoring ==
    /\ (client.timers # {} <=> client.isMonitoring)
    /\ Cardinality(client.timers) <= 1

\* C38. Timestamp ordering: every stored session has createdAt <= lastAccess
\* (and neither lies in the future), and a step leaves createdAt of a live
\* session that stays stored as it was.
TimestampOrdering ==
    /\ [](\A k \in DOMAIN sessions :
             /\ sessions[k].createdAt <= sessions[k].lastAccess
             /\ sessions[k].lastAccess <= now)
    /\ [][\A k \in DOMAIN sessions :
             (Idle(k) <= CHAT_SESSION_TTL /\ k \in DOMAIN sessions')
             => sessions'[k].createdAt = sessions[k].createdAt]_vars

\* a session created at one instant has been appended to at a later one
TimestampOrderingWitness ==
    \E k \in DOMAIN sessions :
        /\ sessions[k].createdAt < sessions[k].lastAccess
        /\ Len(sessions[k].messages) >= 3

====
